---- MODULE Spec2Model ----
(***************************************************************************)
(* Model of the adaptive transfer engine of RestrictedBotTelegram:         *)
(*   - the per-host circuit breaker of IntelligentSpeedOptimizer           *)
(*     (src/core/optimizer.py), with download_file as its client;          *)
(*   - the AdaptiveSpeedMonitor (src/core/monitor.py).                     *)
(* time.time() is modelled as an integer number of seconds.                *)
(***************************************************************************)
EXTENDS Integers, Sequences, FiniteSets, Bags, TLC

VARIABLES
    now,              \* time.time()
    ticks,            \* number of clock advances so far (bounds the run)
    circuit_breakers, \* IntelligentSpeedOptimizer.circuit_breakers, by hostname
    last_call,        \* the operation performed by the last step, with its argument
    fail_run,         \* per host: _record_failure calls since the host was last
                      \*   absent/closed with failure_count 0, no success in between
    succ_run,         \* per host: _record_success calls since the host last became
                      \*   half_open, no failure in between
    calls,            \* download_file invocations suspended in _optimize_download (a bag)
    ncalls,           \* download_file invocations started so far (bounds the run)
    tasks,            \* the _execute_download tasks that are running (a bag)
    active_transfers, \* IntelligentSpeedOptimizer.active_transfers: id -> its task's state
    net_steps,        \* planning / network steps performed so far
    ai_enabled,       \* config.ai['enabled']
    history_size,     \* config.monitoring['history_size'] of the monitor
    contexts,         \* AdaptiveSpeedMonitor.active_transfers: id -> TransferContext
    transfer_history, \* AdaptiveSpeedMonitor.transfer_history: id -> SpeedData list
    callbacks,        \* ids with a callback in AdaptiveSpeedMonitor.callbacks
    global_callbacks, \* number of AdaptiveSpeedMonitor.global_callbacks
    transfer_lock,    \* AdaptiveSpeedMonitor._transfer_lock: who holds it
    waiters,          \* calls waiting for _transfer_lock, first come first served
    stats_store,      \* id -> the TransferStats records written, in order
    events,           \* id -> number of 'transfer_completed' events emitted
    purges,           \* _schedule_history_cleanup tasks that are sleeping
    cb_fired,         \* number of callback invocations so far
    regs,             \* id -> number of register_transfer calls that ran
    nops,             \* monitor calls issued so far (bounds the run)
    mon_ret,          \* the last monitor call that ran, and what it returned
    sampling,         \* the last index selection for a speed graph: input and result
    plan,             \* the last planning request: its inputs and what it returned
    dns_cache,        \* IntelligentSpeedOptimizer.dns_cache: hostname -> (ip, expiry)
    dns_calls,        \* _resolve_dns calls so far (bounds the run)
    dns_ret           \* the last _resolve_dns call: what it returned, how many
                      \*   resolver queries it made

cbVars == <<circuit_breakers, last_call, fail_run, succ_run>>
dlVars == <<calls, ncalls, tasks, active_transfers, net_steps>>
monVars == <<ai_enabled, history_size, contexts, transfer_history, callbacks, global_callbacks,
             transfer_lock, waiters, stats_store, events, purges, cb_fired, regs,
             nops, mon_ret>>
fnVars == <<sampling, plan>>
dnsVars == <<dns_cache, dns_calls, dns_ret>>
vars == <<now, ticks, cbVars, dlVars, monVars, fnVars, dnsVars>>

-----------------------------------------------------------------------------
(* Bounds of the model *)

MaxTicks == 2        \* clock advances in one run
MaxCount == 6        \* cap on failure_count
MaxSucc == 1         \* cap on success_count
MaxCalls == 5        \* download_file invocations in one run
StartTime == 100     \* time.time() when the optimizer is constructed

(* Program constants *)

ResetTimeout == 60        \* 'reset_timeout': 60
FailureThreshold == 5     \* 'threshold': 5
HalfOpenSuccesses == 3    \* if cb['test_count'] >= 3
BreakerMaxAge == 3600     \* now - cb['opened_at'] > 3600

Hosts == {"x"}
NoHost == "nohost"        \* urlparse(url).hostname is None
Urls == {"http://x/f", "http://x/g", "file.bin"}
DownloadUrls == {"http://x/f"}   \* the URLs download_file is called with
TickSteps == {1, ResetTimeout, BreakerMaxAge}    \* clock advances, breaker runs
DownloadTickSteps == {1, ResetTimeout}           \* clock advances, download runs

\* urlparse(url).hostname
Hostname(url) ==
    CASE url = "http://x/f" -> "x"
      [] url = "http://x/g" -> "x"
      [] OTHER -> NoHost

NoKey == -1   \* the key 'test_count' is not in the breaker dict yet

\* hostname not in self.circuit_breakers
NoCB == [state |-> "absent", failure_count |-> 0, success_count |-> 0,
         opened_at |-> 0, reset_timeout |-> 0, threshold |-> 0,
         test_count |-> NoKey]

\* the dict _record_failure creates for a hostname it has not seen
NewCB == [state |-> "closed", failure_count |-> 0, success_count |-> 0,
          opened_at |-> 0, reset_timeout |-> ResetTimeout,
          threshold |-> FailureThreshold, test_count |-> NoKey]

Max(a, b) == IF a >= b THEN a ELSE b
Min(a, b) == IF a <= b THEN a ELSE b

-----------------------------------------------------------------------------
(* _is_circuit_open *)

\* variant: the comparison with reset_timeout reversed
CircuitOpenRetReversed(cb, t) ==
    IF cb.state = "open"
    THEN ~(t - cb.opened_at < cb.reset_timeout)
    ELSE FALSE

\* the value _is_circuit_open returns for a breaker entry at time t
CircuitOpenRet(cb, t) ==
    IF cb.state = "open"
    THEN ~(t - cb.opened_at > cb.reset_timeout)
    ELSE FALSE

\* variant: the timeout resets the breaker instead of starting a trial
CircuitOpenNextReset(cb, t) ==
    IF cb.state = "open" /\ t - cb.opened_at > cb.reset_timeout
    THEN [cb EXCEPT !.state = "closed", !.failure_count = 0]
    ELSE cb

\* the breaker entry after _is_circuit_open at time t
CircuitOpenNext(cb, t) ==
    IF cb.state = "open" /\ t - cb.opened_at > cb.reset_timeout
    THEN [cb EXCEPT !.state = "half_open", !.test_count = 0]
    ELSE cb

(* _record_failure *)

\* variant: the breaker opens only above the threshold
FailureNextStrict(cb0, t) ==
    LET cb == IF cb0.state = "absent" THEN NewCB ELSE cb0 IN
    IF cb.state = "half_open"
    THEN [cb EXCEPT !.state = "open", !.opened_at = t, !.test_count = 0]
    ELSE LET fc == cb.failure_count + 1
             c1 == [cb EXCEPT !.failure_count = fc,
                              !.success_count = Max(0, cb.success_count - 1)]
         IN IF fc > cb.threshold
            THEN [c1 EXCEPT !.state = "open", !.opened_at = t]
            ELSE c1

\* variant: a half-open failure reopens without restarting the open period
FailureNextStale(cb0, t) ==
    LET cb == IF cb0.state = "absent" THEN NewCB ELSE cb0 IN
    IF cb.state = "half_open"
    THEN [cb EXCEPT !.state = "open"]
    ELSE LET fc == cb.failure_count + 1
             c1 == [cb EXCEPT !.failure_count = fc,
                              !.success_count = Max(0, cb.success_count - 1)]
         IN IF fc >= cb.threshold
            THEN [c1 EXCEPT !.state = "open", !.opened_at = t]
            ELSE c1

\* the breaker entry after _record_failure at time t
FailureNext(cb0, t) ==
    LET cb == IF cb0.state = "absent" THEN NewCB ELSE cb0 IN
    IF cb.state = "half_open"
    THEN [cb EXCEPT !.state = "open", !.opened_at = t, !.test_count = 0]
    ELSE LET fc == cb.failure_count + 1
             c1 == [cb EXCEPT !.failure_count = fc,
                              !.success_count = Max(0, cb.success_count - 1)]
         IN IF fc >= cb.threshold
            THEN [c1 EXCEPT !.state = "open", !.opened_at = t]
            ELSE c1

(* _record_success *)

\* variant: the breaker closes one trial success early
SuccessNextEarly(cb) ==
    IF cb.state = "half_open"
    THEN LET tc == cb.test_count + 1 IN
         IF tc >= HalfOpenSuccesses - 1
         THEN [cb EXCEPT !.state = "closed", !.failure_count = 0, !.test_count = 0]
         ELSE [cb EXCEPT !.test_count = tc]
    ELSE IF cb.state = "closed"
    THEN [cb EXCEPT !.success_count = cb.success_count + 1,
                    !.failure_count = Max(0, cb.failure_count - 1)]
    ELSE cb

\* the breaker entry after _record_success
SuccessNext(cb) ==
    IF cb.state = "half_open"
    THEN LET tc == cb.test_count + 1 IN
         IF tc >= HalfOpenSuccesses
         THEN [cb EXCEPT !.state = "closed", !.failure_count = 0, !.test_count = 0]
         ELSE [cb EXCEPT !.test_count = tc]
    ELSE IF cb.state = "closed"
    THEN [cb EXCEPT !.success_count = cb.success_count + 1,
                    !.failure_count = Max(0, cb.failure_count - 1)]
    ELSE cb

(* _periodic_cleanup, the part on circuit breakers *)

\* the entry is dropped by a cleanup pass at time t
Expired(cb, t) == cb.state = "open" /\ t - cb.opened_at > BreakerMaxAge

CleanupBreakers(cbs, t) ==
    [h \in Hosts |-> IF Expired(cbs[h], t) THEN NoCB ELSE cbs[h]]

-----------------------------------------------------------------------------
(* Bookkeeping of the runs of calls the claims speak about *)

\* the entry counts as "no breaker or closed with failure_count 0"
Fresh(cb) == cb.state = "absent" \/ (cb.state = "closed" /\ cb.failure_count = 0)

FailRunNext(run, cb) ==
    IF Fresh(cb) THEN 1
    ELSE IF run > 0 THEN Min(run + 1, FailureThreshold + 1) ELSE 0

\* effect of _record_failure(url) on the breaker table and the bookkeeping
DoRecordFailure(url) ==
    LET h == Hostname(url) IN
    IF h = NoHost
    THEN UNCHANGED <<circuit_breakers, fail_run, succ_run>>
    ELSE /\ circuit_breakers' =
               [circuit_breakers EXCEPT ![h] = FailureNext(circuit_breakers[h], now)]
         /\ fail_run' = [fail_run EXCEPT ![h] = FailRunNext(fail_run[h], circuit_breakers[h])]
         /\ succ_run' = [succ_run EXCEPT ![h] = 0]

\* _record_failure can still count
FailureRoom(url) ==
    IF Hostname(url) = NoHost THEN TRUE
    ELSE circuit_breakers[Hostname(url)].failure_count < MaxCount

\* effect of _is_circuit_open(url) on the breaker table and the bookkeeping
DoIsCircuitOpen(url) ==
    LET h == Hostname(url) IN
    IF h = NoHost
    THEN UNCHANGED <<circuit_breakers, fail_run, succ_run>>
    ELSE /\ circuit_breakers' =
               [circuit_breakers EXCEPT ![h] = CircuitOpenNext(circuit_breakers[h], now)]
         /\ succ_run' = [succ_run EXCEPT ![h] =
               IF circuit_breakers'[h].state = "half_open"
                  /\ circuit_breakers[h].state # "half_open"
               THEN 0 ELSE succ_run[h]]
         /\ UNCHANGED fail_run

\* the value _is_circuit_open(url) returns
IsCircuitOpen(url) ==
    LET h == Hostname(url) IN
    IF h = NoHost THEN FALSE ELSE CircuitOpenRet(circuit_breakers[h], now)

-----------------------------------------------------------------------------
(* The breaker interface, called directly *)

RecordFailure(url) ==
    /\ FailureRoom(url)
    /\ DoRecordFailure(url)
    /\ last_call' = <<"record_failure", url, "">>
    /\ UNCHANGED <<now, ticks, dlVars, dnsVars>>

RecordSuccess(url) ==
    LET h == Hostname(url) IN
    /\ IF h = NoHost THEN TRUE ELSE circuit_breakers[h].success_count < MaxSucc
    /\ IF h = NoHost
       THEN UNCHANGED <<circuit_breakers, fail_run, succ_run>>
       ELSE /\ circuit_breakers' =
                  [circuit_breakers EXCEPT ![h] = SuccessNext(circuit_breakers[h])]
            /\ fail_run' = [fail_run EXCEPT ![h] = 0]
            /\ succ_run' = [succ_run EXCEPT ![h] = Min(succ_run[h] + 1, HalfOpenSuccesses + 1)]
    /\ last_call' = <<"record_success", url, "">>
    /\ UNCHANGED <<now, ticks, dlVars, dnsVars>>

CheckCircuit(url) ==
    /\ DoIsCircuitOpen(url)
    /\ last_call' = <<"is_circuit_open", url, IsCircuitOpen(url)>>
    /\ UNCHANGED <<now, ticks, dlVars, dnsVars>>

Tick(steps) ==
    /\ ticks < MaxTicks
    /\ \E d \in steps : now' = now + d
    /\ ticks' = ticks + 1
    /\ last_call' = <<"tick", "", "">>
    /\ UNCHANGED <<circuit_breakers, fail_run, succ_run, dlVars, dnsVars>>

-----------------------------------------------------------------------------
(* download_file and the _execute_download task it starts *)

\* f"dl_{md5(url)[:8]}_{int(time.time())}": the URL's digest and the second
TransferId(url, t) == <<url, t>>

\* download_file up to its first suspension: the breaker check, and the
\* circuit-open return when the check says so
DownloadFileBegin(url) ==
    /\ ncalls < MaxCalls
    /\ ncalls' = ncalls + 1
    /\ DoIsCircuitOpen(url)
    /\ IF IsCircuitOpen(url)
       THEN /\ last_call' = <<"download_file", url, "circuit_open">>
            /\ UNCHANGED calls
       ELSE /\ last_call' = <<"download_file", url, "admitted">>
            /\ calls' = calls (+) SetToBag({
                  [url |-> url, tid |-> TransferId(url, now),
                   trial |-> IF Hostname(url) = NoHost THEN FALSE
                             ELSE /\ circuit_breakers'[Hostname(url)].state = "half_open"
                                  /\ circuit_breakers[Hostname(url)].state = "open"]})
    /\ UNCHANGED <<now, ticks, tasks, active_transfers, net_steps, dnsVars>>

\* _optimize_download raised: the except branch records the failure
DownloadFilePlanFailed(c) ==
    /\ BagIn(c, calls)
    /\ FailureRoom(c.url)
    /\ net_steps' = net_steps + 1
    /\ DoRecordFailure(c.url)
    /\ calls' = calls (-) SetToBag({c})
    /\ last_call' = <<"download_file_return", c.url, "error">>
    /\ UNCHANGED <<now, ticks, ncalls, tasks, active_transfers, dnsVars>>

\* the task table after self.active_transfers[tid] = task: a task that was
\* registered under tid and still runs is no longer referenced
Register(ts, tid, url) ==
    LET old == [tid |-> tid, url |-> url, registered |-> TRUE]
        kept == IF BagIn(old, ts)
                THEN (ts (-) SetToBag({old})) (+) SetToBag({[old EXCEPT !.registered = FALSE]})
                ELSE ts
    IN kept (+) SetToBag({old})

\* _optimize_download returned a plan: the task is created and registered, then
\* optimization.to_dict() raises AttributeError (TransferOptimization has no
\* to_dict) and the except branch records a failure
DownloadFilePlanned(c) ==
    /\ BagIn(c, calls)
    /\ FailureRoom(c.url)
    /\ net_steps' = net_steps + 1
    /\ tasks' = Register(tasks, c.tid, c.url)
    /\ active_transfers' =
          [t \in (DOMAIN active_transfers) \cup {c.tid} |->
              IF t = c.tid THEN "running" ELSE active_transfers[t]]
    /\ DoRecordFailure(c.url)
    /\ calls' = calls (-) SetToBag({c})
    /\ last_call' = <<"download_file_return", c.url, "error">>
    /\ UNCHANGED <<now, ticks, ncalls, dnsVars>>

\* the times _execute_download runs the transfer before its except branch
\* records the failure: there is no loop around the strategy call
ExecuteAttempts == 1

\* _execute_download runs to its end: every path evaluates
\* optimization.to_dict(), or raises earlier, so the except branch records a
\* failure against the host
TaskFinish(k) ==
    /\ BagIn(k, tasks)
    /\ FailureRoom(k.url)
    /\ net_steps' = net_steps + 1
    /\ DoRecordFailure(k.url)
    /\ tasks' = tasks (-) SetToBag({k})
    /\ active_transfers' =
          IF k.registered THEN [active_transfers EXCEPT ![k.tid] = "done"]
          ELSE active_transfers
    /\ last_call' = <<"execute_download", k.url, "error">>
    /\ UNCHANGED <<now, ticks, calls, ncalls, dnsVars>>

\* hostname not in self.dns_cache
NoDns == [ip |-> "", expiry |-> 0]

\* the entries _periodic_cleanup keeps: it deletes those with now > expiry
CleanupDns(cache, t) ==
    [h \in DOMAIN cache |->
        IF cache[h] # NoDns /\ t > cache[h].expiry THEN NoDns ELSE cache[h]]

\* one pass of _periodic_cleanup: finished tasks leave active_transfers,
\* expired DNS entries and breakers open for more than an hour are deleted
PeriodicCleanup ==
    /\ active_transfers' =
          [t \in {u \in DOMAIN active_transfers : active_transfers[u] # "done"} |->
              active_transfers[t]]
    /\ dns_cache' = CleanupDns(dns_cache, now)
    /\ circuit_breakers' = CleanupBreakers(circuit_breakers, now)
    /\ last_call' = <<"periodic_cleanup", "", "">>
    /\ UNCHANGED <<now, ticks, fail_run, succ_run, calls, ncalls, tasks, net_steps,
                   dns_calls, dns_ret>>

-----------------------------------------------------------------------------
(* AdaptiveSpeedMonitor: numbers *)

\* Speeds and ETAs are Python floats; they are modelled as exact fractions
\* <<numerator, denominator>> in lowest terms with a positive denominator.
\* Python's None, where a number may be passed, is <<0, 0>>.
None == <<0, 0>>
IsNone(r) == r[2] = 0
Zero == <<0, 1>>
\* float inf or nan
NonFinite == <<1, 0>>

Abs(n) == IF n < 0 THEN -n ELSE n

RECURSIVE GCD(_, _)
GCD(a, b) == IF b = 0 THEN a ELSE GCD(b, a % b)

\* the fraction n / d, d # 0
Rat(n, d) ==
    LET g == GCD(Abs(n), Abs(d))
        sg == IF d < 0 THEN -1 ELSE 1
    IN <<(sg * n) \div g, (sg * d) \div g>>

RLess(a, b) == a[1] * b[2] < b[1] * a[2]
RAdd(a, b) == Rat(a[1] * b[2] + b[1] * a[2], a[2] * b[2])
RScale(a, k) == Rat(a[1] * k, a[2])
\* the fraction n / a for an integer n and a fraction a # 0
IntOver(n, a) == Rat(n * a[2], a[1])

RECURSIVE RMaxOf(_)
\* max(methods) over a non-empty sequence of fractions
RMaxOf(ms) ==
    IF Len(ms) = 1 THEN ms[1]
    ELSE LET m == RMaxOf(Tail(ms)) IN IF RLess(ms[1], m) THEN m ELSE ms[1]

-----------------------------------------------------------------------------
(* AdaptiveSpeedMonitor: state *)

TransferIds == {"t1", "t2"}
FileSizes == {4}                 \* file_size passed to register_transfer
ByteInputs == {0, 2, 4}          \* bytes_transferred passed to an update
PlainBytes == {2}                \* the same, in the registry runs
NoTotal == -1                    \* total_bytes=None
TotalInputs == {NoTotal, 2}      \* total_bytes passed to an update
SpeedInputs == {None, <<0, 1>>, <<2, 1>>}   \* speed_bps passed to an update
MonitorTickSteps == {3601}       \* clock advances, registry runs
EtaTickSteps == {1}              \* clock advances, progress runs
ShutdownTickSteps == {1}         \* clock advances, shutdown runs

MaxOps == 4                      \* monitor calls in one run
MaxCallbacks == 1                \* callbacks registered in one run

HistorySize == 1000              \* config.monitoring['history_size']
AiMinSamples == 10               \* len(speed_samples) > 10
WeightedWindow == 5              \* len(speed_samples) >= 5, speed_samples[-5:]
StaleAfter == 3600               \* now - context.last_checkpoint > 3600
PurgeDelay == 3600               \* delay_hours * 3600

NoTime == -1                     \* last_checkpoint is None

\* transfer_id not in self.active_transfers
NoCtx == [status |-> "absent", file_size |-> 0, start_time |-> 0,
          speed_samples |-> <<>>, last_checkpoint |-> NoTime,
          last_bytes |-> 0, last_speed |-> None]

\* TransferContext(...) as register_transfer builds it at time t
NewCtx(size, t) ==
    [status |-> "pending", file_size |-> size, start_time |-> t,
     speed_samples |-> <<>>, last_checkpoint |-> NoTime,
     last_bytes |-> 0, last_speed |-> None]

\* a membership test that finds every id
LiveAlways(id) == TRUE

\* transfer_id in self.active_transfers
Live(id) == contexts[id].status # "absent"

\* what a call that returned nothing leaves in mon_ret
Ret(op, id, kind) ==
    [op |-> op, id |-> id, kind |-> kind, eta |-> Zero, bytes |-> 0,
     total |-> 0, speed |-> None]

-----------------------------------------------------------------------------
(* _calculate_adaptive_eta *)

\* np.linspace(0.5, 1.0, 5), times 8
Weights8 == <<4, 5, 6, 7, 8>>
WeightSum8 == 30

\* sum(weighted_speeds) / sum(weights) over speed_samples[-5:]
WeightedAvg(samples) ==
    LET n == Len(samples)
        w(i) == RScale(samples[n - WeightedWindow + i], Weights8[i])
        total == RAdd(RAdd(RAdd(RAdd(w(1), w(2)), w(3)), w(4)), w(5))
    IN Rat(total[1], total[2] * WeightSum8)

\* the result of _calculate_adaptive_eta: the ETA, or the exception it raises.
\* A last sample of 0 is a Python number and the division raises
\* ZeroDivisionError; weighted_avg is a numpy float, and dividing by a numpy
\* zero gives inf or nan instead, which max() then returns or passes over:
\* the result is taken to be NonFinite.  predict_future_speed is a
\* coroutine function called without await, so the comparison
\* predicted_speed > 0 raises TypeError.
CalculateAdaptiveEta(bytes, total, samples, avg, ai) ==
    LET n == Len(samples)
        remaining == total - bytes
    IN IF n = 0 \/ ~RLess(Zero, avg)
       THEN [kind |-> "ok", eta |-> Zero]
       ELSE IF samples[n][1] = 0
       THEN [kind |-> "ZeroDivisionError", eta |-> Zero]
       ELSE IF ai /\ n > AiMinSamples
       THEN [kind |-> "TypeError", eta |-> Zero]
       ELSE IF n >= WeightedWindow /\ WeightedAvg(samples)[1] = 0
       THEN [kind |-> "ok", eta |-> NonFinite]
       ELSE LET m1 == IntOver(remaining, samples[n])
                m2 == IntOver(remaining, avg)
                ms == IF n >= WeightedWindow
                      THEN <<m1, m2, IntOver(remaining, WeightedAvg(samples))>>
                      ELSE <<m1, m2>>
            IN [kind |-> "ok", eta |-> RMaxOf(ms)]

-----------------------------------------------------------------------------
(* update_transfer_progress, inside _transfer_lock *)

\* speed_bps after the "instantaneous speed" step
InstantSpeed(ctx, bytes, speedIn, t) ==
    IF IsNone(speedIn) /\ ctx.last_checkpoint # NoTime /\ t - ctx.last_checkpoint > 0
    THEN Rat(bytes - ctx.last_bytes, t - ctx.last_checkpoint)
    ELSE speedIn

\* avg_speed_bps
AvgSpeed(ctx, bytes, t) ==
    IF t - ctx.start_time > 0 THEN Rat(bytes, t - ctx.start_time) ELSE Zero

\* speed_bps or avg_speed_bps
SpeedOr(speed, avg) == IF IsNone(speed) \/ speed[1] = 0 THEN avg ELSE speed

\* the history after append, without the history_size trim
HistoryAppendKeepAll(h, sd) == Append(h, sd)

\* the history after append and the history_size trim
HistoryAppend(h, sd) ==
    LET h1 == Append(h, sd) IN IF Len(h1) > history_size THEN Tail(h1) ELSE h1

\* callbacks _execute_callbacks gathers for a transfer
CallbackCount(id) == (IF id \in callbacks THEN 1 ELSE 0) + global_callbacks

UpdateBody(id, bytes, totalIn, speedIn) ==
    IF ~Live(id)
    THEN /\ mon_ret' = Ret("update", id, "none")
         /\ UNCHANGED <<contexts, transfer_history, transfer_lock, cb_fired>>
    ELSE LET ctx == contexts[id]
             speed == InstantSpeed(ctx, bytes, speedIn, now)
             total == IF totalIn = NoTotal THEN ctx.file_size ELSE totalIn
             avg == AvgSpeed(ctx, bytes, now)
             r == CalculateAdaptiveEta(bytes, total, ctx.speed_samples, avg, ai_enabled)
             sample == SpeedOr(speed, avg)
             sd == [bytes_transferred |-> bytes, total_bytes |-> total,
                    speed_bps |-> sample, eta_seconds |-> r.eta]
             out == [op |-> "update", id |-> id, kind |-> "speed_data", eta |-> r.eta,
                     bytes |-> bytes, total |-> total, speed |-> speedIn]
         IN IF r.kind # "ok"
            THEN \* the exception leaves through "async with": nothing was written
                 /\ mon_ret' = [out EXCEPT !.kind = r.kind]
                 /\ UNCHANGED <<contexts, transfer_history, transfer_lock, cb_fired>>
            ELSE IF bytes - ctx.last_bytes < 0
            THEN \* Counter.inc(amount < 0) raises ValueError after the sample
                 \* and the history entry were appended
                 /\ contexts' = [contexts EXCEPT
                        ![id].speed_samples = Append(ctx.speed_samples, sample)]
                 /\ transfer_history' = [transfer_history EXCEPT
                        ![id] = HistoryAppend(@, sd)]
                 /\ mon_ret' = [out EXCEPT !.kind = "ValueError"]
                 /\ UNCHANGED <<transfer_lock, cb_fired>>
            ELSE /\ contexts' = [contexts EXCEPT
                        ![id].speed_samples = Append(ctx.speed_samples, sample),
                        ![id].last_bytes = bytes,
                        ![id].last_speed = speed,
                        ![id].last_checkpoint = now]
                 /\ transfer_history' = [transfer_history EXCEPT
                        ![id] = HistoryAppend(@, sd)]
                 /\ cb_fired' = cb_fired + CallbackCount(id)
                 \* asyncio.gather(*tasks) suspends with _transfer_lock held
                 /\ transfer_lock' = IF CallbackCount(id) > 0 THEN "callbacks" ELSE "free"
                 /\ mon_ret' = out

-----------------------------------------------------------------------------
(* complete_transfer, inside _transfer_lock *)

\* a completion that leaves the context in the registry
ForgetKept(ctxs, id) == ctxs

\* self.active_transfers after "del self.active_transfers[transfer_id]"
Forget(ctxs, id) == [ctxs EXCEPT ![id] = NoCtx]

\* the TransferStats built from a context
StatsOf(ctx, success, t) ==
    [success |-> success, file_size |-> ctx.file_size,
     duration_seconds |-> t - ctx.start_time, samples |-> Len(ctx.speed_samples)]

CompleteBody(id, success) ==
    IF ~Live(id)
    THEN /\ mon_ret' = Ret("complete", id, "none")
         /\ UNCHANGED <<contexts, stats_store, events, purges>>
    ELSE /\ stats_store' = [stats_store EXCEPT
                ![id] = Append(@, StatsOf(contexts[id], success, now))]
         /\ events' = [events EXCEPT ![id] = @ + 1]
         /\ contexts' = Forget(contexts, id)
         /\ purges' = purges \cup {[id |-> id, due |-> now + PurgeDelay]}
         /\ mon_ret' = Ret("complete", id, "completed")

(* register_transfer, inside _transfer_lock *)

RegisterBody(id, size) ==
    /\ contexts' = [contexts EXCEPT ![id] = NewCtx(size, now)]
    /\ regs' = [regs EXCEPT ![id] = @ + 1]
    /\ mon_ret' = Ret("register", id, "context")

(* shutdown, from the point where it takes _transfer_lock.  With the lock   *)
(* held it awaits complete_transfer for the first live transfer; that call  *)
(* waits for the same lock, so shutdown stays suspended with the lock held. *)
(* With no live transfer the loop is empty and the lock is released.        *)

ShutdownBody ==
    /\ IF \E id \in TransferIds : Live(id)
       THEN /\ transfer_lock' = "shutdown"
            /\ mon_ret' = Ret("shutdown", "", "suspended")
       ELSE /\ transfer_lock' = "free"
            /\ mon_ret' = Ret("shutdown", "", "done")
    /\ UNCHANGED <<contexts, stats_store, events, purges>>

-----------------------------------------------------------------------------
(* Calls on the monitor.  asyncio.Lock hands the lock over in arrival order: *)
(* a call runs at once when the lock is free and nobody waits, and queues    *)
(* otherwise.                                                                *)

\* a lock that every caller finds free
LockFreeAlways == TRUE

LockFree == transfer_lock = "free" /\ waiters = <<>>

Waiter(op, id, a, b, c) == [op |-> op, id |-> id, a |-> a, b |-> b, c |-> c]

optVars == <<circuit_breakers, last_call, fail_run, succ_run, dlVars, dnsVars>>

\* the part of a monitor call outside its body
Issue(w) ==
    /\ nops < MaxOps
    /\ nops' = nops + 1
    /\ UNCHANGED <<now, ticks, optVars, ai_enabled, history_size, callbacks, global_callbacks>>
    /\ IF LockFree
       THEN UNCHANGED waiters
       ELSE /\ waiters' = Append(waiters, w)
            /\ UNCHANGED <<contexts, transfer_history, transfer_lock, stats_store,
                           events, purges, cb_fired, regs, mon_ret>>

RegisterTransfer(id, size) ==
    /\ Issue(Waiter("register", id, size, 0, None))
    /\ LockFree => /\ RegisterBody(id, size)
                   /\ UNCHANGED <<transfer_history, transfer_lock, stats_store,
                                  events, purges, cb_fired>>

UpdateTransferProgress(id, bytes, totalIn, speedIn) ==
    /\ Issue(Waiter("update", id, bytes, totalIn, speedIn))
    /\ LockFree => /\ UpdateBody(id, bytes, totalIn, speedIn)
                   /\ UNCHANGED <<stats_store, events, purges, regs>>

CompleteTransfer(id, success) ==
    /\ Issue(Waiter("complete", id, IF success THEN 1 ELSE 0, 0, None))
    /\ LockFree => /\ CompleteBody(id, success)
                   /\ UNCHANGED <<transfer_history, transfer_lock, cb_fired, regs>>

\* shutdown(), after it has cancelled and gathered the background tasks
Shutdown ==
    /\ Issue(Waiter("shutdown", "", 0, 0, None))
    /\ LockFree => /\ ShutdownBody
                   /\ UNCHANGED <<transfer_history, cb_fired, regs>>

\* the first waiter gets the lock and runs its body
RunWaiter ==
    /\ transfer_lock = "free"
    /\ waiters # <<>>
    /\ waiters' = Tail(waiters)
    /\ LET w == Head(waiters) IN
       CASE w.op = "register" ->
                /\ RegisterBody(w.id, w.a)
                /\ UNCHANGED <<transfer_history, transfer_lock, stats_store,
                               events, purges, cb_fired>>
         [] w.op = "update" ->
                /\ UpdateBody(w.id, w.a, w.b, w.c)
                /\ UNCHANGED <<stats_store, events, purges, regs>>
         [] w.op = "complete" ->
                /\ CompleteBody(w.id, w.a = 1)
                /\ UNCHANGED <<transfer_history, transfer_lock, cb_fired, regs>>
         [] w.op = "shutdown" ->
                /\ ShutdownBody
                /\ UNCHANGED <<transfer_history, cb_fired, regs>>
    /\ UNCHANGED <<now, ticks, optVars, ai_enabled, history_size, callbacks, global_callbacks, nops>>

\* the gathered callbacks return; update_transfer_progress leaves the lock
CallbacksDone ==
    /\ transfer_lock = "callbacks"
    /\ transfer_lock' = "free"
    /\ UNCHANGED <<now, ticks, optVars, ai_enabled, history_size, contexts, transfer_history,
                   callbacks, global_callbacks, waiters, stats_store, events,
                   purges, cb_fired, regs, nops, mon_ret>>

\* register_callback(callback, transfer_id) and register_callback(callback)
RegisterCallback(target) ==
    /\ Cardinality(callbacks) + global_callbacks < MaxCallbacks
    /\ IF target = "global"
       THEN global_callbacks' = global_callbacks + 1 /\ UNCHANGED callbacks
       ELSE callbacks' = callbacks \cup {target} /\ UNCHANGED global_callbacks
    /\ UNCHANGED <<now, ticks, optVars, ai_enabled, history_size, contexts, transfer_history,
                   transfer_lock, waiters, stats_store, events, purges, cb_fired,
                   regs, nops, mon_ret>>

\* one pass of the monitor's _periodic_cleanup.  A context that was never
\* updated has last_checkpoint None, and the subtraction raises TypeError,
\* which the pass swallows.  A pass that finds a stale transfer awaits
\* complete_transfer with _transfer_lock held: that call waits for the lock
\* the pass itself holds, so the lock is never released.
StaleIds == {id \in TransferIds :
                Live(id) /\ now - contexts[id].last_checkpoint > StaleAfter}

MonitorCleanup ==
    /\ LockFree
    /\ transfer_lock' =
          IF \E id \in TransferIds : Live(id) /\ contexts[id].last_checkpoint = NoTime
          THEN "free"
          ELSE IF StaleIds # {} THEN "cleanup" ELSE "free"
    /\ UNCHANGED <<now, ticks, optVars, ai_enabled, history_size, contexts, transfer_history,
                   callbacks, global_callbacks, waiters, stats_store, events,
                   purges, cb_fired, regs, nops, mon_ret>>

\* a _schedule_history_cleanup task wakes up and deletes the id's history
HistoryPurge(p) ==
    /\ p \in purges
    /\ now >= p.due
    /\ purges' = purges \ {p}
    /\ transfer_history' = [transfer_history EXCEPT ![p.id] = <<>>]
    /\ UNCHANGED <<now, ticks, optVars, ai_enabled, history_size, contexts, callbacks,
                   global_callbacks, transfer_lock, waiters, stats_store, events,
                   cb_fired, regs, nops, mon_ret>>

MonitorTick(steps) ==
    /\ ticks < MaxTicks
    /\ \E d \in steps : now' = now + d
    /\ ticks' = ticks + 1
    /\ UNCHANGED <<optVars, monVars>>

-----------------------------------------------------------------------------
(* _smart_sampling_indices and its use by get_speed_graph_data *)

MaxHist == 5                     \* longest history sampled
MaxPoints == 4                   \* largest number of points asked for
SpeedLevels == {0, 1, 2}         \* speed_kbps of a history entry
NoPoints == 0                    \* points=None

\* histories: the speed_kbps of each SpeedData, oldest first
Histories == UNION {[1..n -> SpeedLevels] : n \in 0..MaxHist}

\* list(range(n))
RangeList(n) == [i \in 1..n |-> i - 1]

RECURSIVE SortedList(_)
\* sorted(indices)
SortedList(S) ==
    IF S = {} THEN <<>>
    ELSE LET m == CHOOSE x \in S : \A y \in S : x <= y
         IN <<m>> \o SortedList(S \ {m})

\* a slice that keeps every element
SliceLenAll(len, k) == len

\* len(xs[:k]) for a list of length len
SliceLen(len, k) == IF k >= 0 THEN Min(k, len) ELSE Max(len + k, 0)

\* abs(data[i].speed_kbps - data[i-1].speed_kbps) for the 0-based index i
Change(data, i) == Abs(data[i + 1] - data[i])

\* the indices in changes[:k] after the stable sort by change, largest first
TopChanges(data, k) ==
    LET n == Len(data)
        before(j, i) == \/ Change(data, j) > Change(data, i)
                        \/ Change(data, j) = Change(data, i) /\ j < i
        rank(i) == Cardinality({j \in 1..(n - 1) : before(j, i)})
    IN {i \in 1..(n - 1) : rank(i) < SliceLen(n - 1, k)}

\* range(step, n, step), step > 0
Fill(n, step) == {i \in 0..(n - 1) : i >= step /\ i % step = 0}

SmartSamplingIndices(data, target_points) ==
    LET n == Len(data) IN
    IF n <= target_points THEN RangeList(n)
    ELSE LET picked == {0, n - 1} \cup TopChanges(data, target_points - 2)
             remaining == target_points - Cardinality(picked)
             step == n \div (remaining + 1)
         IN IF remaining > 0 /\ step > 0
            THEN SortedList(picked \cup Fill(n, step))
            ELSE SortedList(picked)

\* the indices get_speed_graph_data keeps
GraphIndices(data, points) ==
    IF points # NoPoints /\ Len(data) > points
    THEN SmartSamplingIndices(data, points)
    ELSE RangeList(Len(data))

NoSampling == [op |-> "none", data |-> <<>>, points |-> 0, indices |-> <<>>]

otherVars == <<now, ticks, cbVars, dlVars, monVars, plan, dnsVars>>

\* the selection keeps no state between calls: each run applies it once
SmartSampling(data, target_points) ==
    /\ sampling = NoSampling
    /\ sampling' = [op |-> "_smart_sampling_indices", data |-> data,
                    points |-> target_points,
                    indices |-> SmartSamplingIndices(data, target_points)]
    /\ UNCHANGED otherVars

GetSpeedGraphData(data, points) ==
    /\ sampling = NoSampling
    /\ data # <<>>
    /\ sampling' = [op |-> "get_speed_graph_data", data |-> data,
                    points |-> points, indices |-> GraphIndices(data, points)]
    /\ UNCHANGED otherVars

-----------------------------------------------------------------------------
(* _resolve_dns and the DNS cache *)

MaxDnsCalls == 4                 \* _resolve_dns calls in one run
DnsCacheTtl == 300               \* config.network['dns_cache_ttl']
DnsAttempts == 3                 \* len(resolvers)
DnsHosts == {"x", "y"}
Ips == {"10.0.0.1", "10.0.0.2"}
DnsTickSteps == {1, DnsCacheTtl}

NoDnsRet == [host |-> "", result |-> "", queries |-> 0, at |-> 0, failed |-> 0]

\* an entry that is served whatever its expiry
CacheFreshAlways(e, t) == e # NoDns

\* hostname in self.dns_cache and now < expiry
CacheFresh(e, t) == e # NoDns /\ t < e.expiry

\* a lookup answers whatever number of them fails
AnsweredAlways(failures) == TRUE

\* one of the dns.resolver lookups or socket.gethostbyname answers, when the
\* first `failures` lookups of the call fail
Answered(failures) == failures <= DnsAttempts

\* _resolve_dns(hostname).  The environment decides how many lookups fail
\* before one answers: the dns.resolver lookup is tried once per entry of
\* resolvers, then socket.gethostbyname once; when all of them fail the
\* hostname itself is returned and nothing is cached.  The function never
\* suspends, so calls do not interleave.
ResolveDns(hostname, failures, ip) ==
    /\ dns_calls < MaxDnsCalls
    /\ dns_calls' = dns_calls + 1
    /\ IF CacheFresh(dns_cache[hostname], now)
       THEN /\ dns_ret' = [host |-> hostname, result |-> dns_cache[hostname].ip,
                           queries |-> 0, at |-> now, failed |-> failures]
            /\ UNCHANGED dns_cache
       ELSE IF Answered(failures)
       THEN /\ dns_cache' = [dns_cache EXCEPT
                   ![hostname] = [ip |-> ip, expiry |-> now + DnsCacheTtl]]
            /\ dns_ret' = [host |-> hostname, result |-> ip,
                           queries |-> failures + 1, at |-> now,
                           failed |-> failures]
       ELSE /\ dns_ret' = [host |-> hostname, result |-> hostname,
                           queries |-> DnsAttempts + 1, at |-> now,
                           failed |-> failures]
            /\ UNCHANGED dns_cache
    /\ UNCHANGED <<now, ticks, cbVars, dlVars>>

-----------------------------------------------------------------------------
(* The planner: _optimize_download, _optimize_upload and their helpers *)

MB == 1048576                    \* 1024 * 1024
KB == 1024
ChunkSizeMb == 5                 \* config.download['chunk_size_mb']
MaxConnections == 16             \* config.download['max_connections']
BufferSizeMb == 10               \* config.download['buffer_size_mb']

HeadFailed == -1                 \* the HEAD request of _analyze_file raised
\* Content-Length answers of the HEAD request (absent: 0), or its failure
HeadInputs == {HeadFailed, 0, MB, 2 * MB, 50 * MB, 100 * MB, 500 * MB}
UploadSizes == {0, MB, 50 * MB, 500 * MB}    \* source.stat().st_size
Latencies == {20, 120, 180, 200, 250}        \* network_analysis['latency'], ms
Bandwidths == {0, 512 * KB, MB, 50 * MB}     \* network_analysis['bandwidth'], B/s
PacketLossPct == {0, 20}                     \* network_analysis['packet_loss'], %
Priorities == {5}

Network(latency, bandwidth, loss) ==
    [latency |-> latency, bandwidth |-> bandwidth, packet_loss |-> loss]

\* file_info['size'] as _analyze_file returns it
AnalyzedSize(head) == IF head = HeadFailed THEN 0 ELSE head

\* the rules without the one for large files
RuleStrategyNoLarge(file_size, net) ==
    IF file_size < 2 * MB THEN "single"
    ELSE IF net.latency > 200 \/ net.bandwidth < MB THEN "single"
    ELSE "adaptive"

\* the rules with every threshold counted on the other side
RuleStrategyInclusive(file_size, net) ==
    IF file_size <= 2 * MB THEN "single"
    ELSE IF net.latency >= 200 \/ net.bandwidth <= MB THEN "single"
    ELSE IF file_size >= 100 * MB THEN "multi_connection"
    ELSE "adaptive"

\* strategy of _rule_based_optimization
RuleStrategy(file_size, net) ==
    IF file_size < 2 * MB THEN "single"
    ELSE IF net.latency > 200 \/ net.bandwidth < MB THEN "single"
    ELSE IF file_size > 100 * MB THEN "multi_connection"
    ELSE "adaptive"

\* confidence of _rule_based_optimization, in hundredths
RuleConfidence(file_size, net) ==
    IF file_size < 2 * MB THEN 90
    ELSE IF net.latency > 200 \/ net.bandwidth < MB THEN 80
    ELSE IF file_size > 100 * MB THEN 85
    ELSE 70

\* estimated_speed of _rule_based_optimization, Mbps
RuleEstimatedSpeed(net) ==
    IF net.bandwidth > 0
    THEN LET b == Rat(net.bandwidth, MB) IN IF RLess(<<100, 1>>, b) THEN <<100, 1>> ELSE b
    ELSE IF net.latency < 50 THEN <<50, 1>>
    ELSE IF net.latency < 100 THEN <<20, 1>>
    ELSE IF net.latency < 200 THEN <<10, 1>>
    ELSE <<5, 1>>

CalculateOptimalChunkSize(file_size, net, strategy) ==
    LET base_chunk == ChunkSizeMb * MB IN
    IF strategy = "single" THEN Min(file_size, base_chunk)
    ELSE IF net.latency > 100 THEN Max(256 * KB, base_chunk \div 2)
    ELSE IF net.packet_loss > 10 THEN Max(128 * KB, base_chunk \div 4)
    ELSE Min(base_chunk * 2, 50 * MB)

\* _calculate_optimal_connections under config.download['max_connections'] = max_conn
ConnectionsUnder(max_conn, file_size, net, strategy) ==
    IF strategy = "single" THEN 1
    ELSE LET base_connections == Min(max_conn, Max(2, file_size \div (10 * MB)))
         IN IF net.latency > 150 THEN Max(2, base_connections \div 2)
            ELSE base_connections

CalculateOptimalConnections(file_size, net, strategy) ==
    ConnectionsUnder(MaxConnections, file_size, net, strategy)

CalculateBufferSize(chunk_size, connections) ==
    Min(chunk_size * connections * 2, BufferSizeMb * MB)

\* no performance measured yet; stability is in tenths
NoPerformance == [speed |-> 0, stability |-> 0]

NoPlan == [op |-> "none", kind |-> "none", size |-> 0, net |-> Network(0, 0, 0),
           ai |-> FALSE, strategy |-> "", chunk_size |-> 0, connections |-> 0,
           buffer_size |-> 0, confidence |-> 0, estimated_speed |-> Zero,
           priority |-> 0, observed |-> NoPerformance, max_connections |-> 0]

\* a planning call that left with an exception
PlanRaised(op, kind, size, net, priority) ==
    [NoPlan EXCEPT !.op = op, !.kind = kind, !.size = size, !.net = net,
                   !.ai = ai_enabled, !.priority = priority]

\* _optimize_download.  AISpeedPredictor has no predict_optimal_strategy, so
\* with config.ai['enabled'] the call raises AttributeError, which nothing in
\* _optimize_download catches.
OptimizeDownloadResult(head, net, priority) ==
    LET size == AnalyzedSize(head) IN
    IF ai_enabled
    THEN PlanRaised("_optimize_download", "AttributeError", size, net, priority)
    ELSE LET strategy == RuleStrategy(size, net)
             chunk_size == CalculateOptimalChunkSize(size, net, strategy)
             connections == CalculateOptimalConnections(size, net, strategy)
         IN [op |-> "_optimize_download", kind |-> "plan", size |-> size,
             net |-> net, ai |-> ai_enabled, strategy |-> strategy,
             chunk_size |-> chunk_size, connections |-> connections,
             buffer_size |-> CalculateBufferSize(chunk_size, connections),
             confidence |-> RuleConfidence(size, net),
             estimated_speed |-> RuleEstimatedSpeed(net), priority |-> priority,
             observed |-> NoPerformance, max_connections |-> MaxConnections]

\* _optimize_upload.  Its first statement calls self._analyze_file_for_upload,
\* which the class does not define: the call raises AttributeError before a
\* strategy is chosen.
OptimizeUploadResult(file_size, net, priority) ==
    PlanRaised("_optimize_upload", "AttributeError", file_size, net, priority)

planOtherVars == <<now, ticks, cbVars, dlVars, history_size, contexts, transfer_history,
                   callbacks, global_callbacks, transfer_lock, waiters,
                   stats_store, events, purges, cb_fired, regs, nops, mon_ret,
                   sampling, dnsVars>>

OptimizeDownload(head, net, priority) ==
    /\ plan' = OptimizeDownloadResult(head, net, priority)
    /\ UNCHANGED <<planOtherVars, ai_enabled>>

OptimizeUpload(file_size, net, priority) ==
    /\ plan' = OptimizeUploadResult(file_size, net, priority)
    /\ UNCHANGED <<planOtherVars, ai_enabled>>

\* ConfigManager.reload_config: the settings file now has ai.enabled = enabled
ReloadConfig(enabled) ==
    /\ ai_enabled' = enabled
    /\ UNCHANGED <<planOtherVars, plan>>

\* values config.download['max_connections'] may take: Field(16, ge=1, le=64)
ConfiguredMaxConnections == {1, 2, 16, 64}
Strategies == {"single", "multi_connection", "adaptive"}
ConnectionSizes == {0, MB, 50 * MB, 100 * MB, 500 * MB, 1000 * MB}

\* _calculate_optimal_connections(file_size, network_analysis, strategy) under
\* a configuration with the given max_connections
CalculateConnections(max_conn, file_size, net, strategy) ==
    /\ plan' = [NoPlan EXCEPT
                   !.op = "_calculate_optimal_connections",
                   !.kind = "connections",
                   !.size = file_size,
                   !.net = net,
                   !.strategy = strategy,
                   !.connections = ConnectionsUnder(max_conn, file_size, net, strategy),
                   !.max_connections = max_conn]
    /\ UNCHANGED <<planOtherVars, ai_enabled>>

-----------------------------------------------------------------------------
(* _monitor_and_adjust and _adjust_parameters *)

PerfSpeeds == {0, 2, 4, 6}           \* performance['speed'], Mbps
PerfStabilities == {9, 10}           \* performance['stability'], tenths
AdaptHeads == {50 * MB, 100 * MB}    \* file sizes of the plans that are adjusted
AdaptNetworks == {Network(l, b, p) : l \in {20, 120}, b \in {10 * MB, 50 * MB},
                                     p \in PacketLossPct}

\* speed < estimated_speed * (tenths / 10), with estimated_speed = <<n, d>>
BelowShare(speed, est, tenths) == speed * 10 * est[2] < tenths * est[1]

\* _analyze_current_performance: a placeholder that returns the same
\* measurement whatever the transfer does
AnalyzeCurrentPerformance == [speed |-> 0, stability |-> 9]

\* the TransferOptimization after _adjust_parameters(…, optimization, performance)
Adjusted(opt, perf) ==
    [opt EXCEPT
        !.op = "_adjust_parameters",
        !.observed = perf,
        !.connections = IF BelowShare(perf.speed, opt.estimated_speed, 3)
                        THEN Max(1, opt.connections \div 2) ELSE @,
        !.chunk_size = IF perf.stability > 9
                       THEN Min(opt.chunk_size * 2, ChunkSizeMb * MB) ELSE @]

\* _adjust_parameters called with a measurement
AdjustParameters(speed, stability) ==
    /\ plan.kind = "plan"
    /\ plan.strategy = "adaptive"
    /\ plan' = Adjusted(plan, [speed |-> speed, stability |-> stability])
    /\ UNCHANGED <<planOtherVars, ai_enabled>>

\* one adaptation check of the loop of _monitor_and_adjust, reached every
\* adaptation_interval while the file is incomplete
AdaptationCheck ==
    /\ plan.kind = "plan"
    /\ plan.strategy = "adaptive"
    /\ LET perf == AnalyzeCurrentPerformance IN
       plan' = IF BelowShare(perf.speed, plan.estimated_speed, 5)
               THEN [Adjusted(plan, perf) EXCEPT !.op = "_monitor_and_adjust"]
               ELSE [plan EXCEPT !.op = "_monitor_and_adjust", !.observed = perf]
    /\ UNCHANGED <<planOtherVars, ai_enabled>>

-----------------------------------------------------------------------------
(* upload_file *)

\* upload_file(source, upload_url).  The breaker is not consulted.  A source
\* that does not exist returns 'File not found'; otherwise _optimize_upload
\* raises AttributeError at its first statement (OptimizeUploadResult), which
\* the except branch turns into an error result; _record_failure is not
\* called and no request is sent.
UploadFile(source_exists, upload_url) ==
    /\ last_call' = <<"upload_file", upload_url,
                      IF source_exists
                      THEN OptimizeUploadResult(0, Network(0, 0, 0), 5).kind
                      ELSE "File not found">>
    /\ UNCHANGED <<now, ticks, circuit_breakers, fail_run, succ_run, dlVars, dnsVars>>

\* optimization.strategy of an upload plan
UploadStrategies == {"single", "multi_connection", "adaptive"}

\* _upload_multipart(source, upload_url, optimization, ...).  Its first
\* statement awaits self._initiate_multipart_upload, which the class does not
\* define (nor _upload_chunk, _complete_multipart_upload and
\* _abort_multipart_upload): AttributeError is raised before the try block,
\* so no session is opened, no chunk is uploaded, nothing is committed and
\* nothing is aborted.
UploadMultipartResult == "AttributeError"

\* _upload_single is not defined either
UploadSingleResult == "AttributeError"

\* _execute_upload(transfer_id, source, upload_url, optimization, ...), called
\* with a plan of the given strategy: the except branch turns the exception
\* of the strategy call into an error result
ExecuteUpload(strategy, upload_url) ==
    /\ last_call' = IF strategy = "single"
                    THEN <<"_upload_single", upload_url, UploadSingleResult>>
                    ELSE <<"_upload_multipart", upload_url, UploadMultipartResult>>
    /\ UNCHANGED <<now, ticks, circuit_breakers, fail_run, succ_run, dlVars, dnsVars>>

-----------------------------------------------------------------------------
(* Specifications *)

\* the state after construction, whatever config.monitoring['history_size'] is
Constructed ==
    /\ now = StartTime
    /\ ticks = 0
    /\ circuit_breakers = [h \in Hosts |-> NoCB]
    /\ last_call = <<"init", "", "">>
    /\ fail_run = [h \in Hosts |-> 0]
    /\ succ_run = [h \in Hosts |-> 0]
    /\ calls = EmptyBag
    /\ ncalls = 0
    /\ tasks = EmptyBag
    /\ active_transfers = <<>>
    /\ net_steps = 0
    /\ ai_enabled = TRUE
    /\ contexts = [id \in TransferIds |-> NoCtx]
    /\ transfer_history = [id \in TransferIds |-> <<>>]
    /\ callbacks = {}
    /\ global_callbacks = 0
    /\ transfer_lock = "free"
    /\ waiters = <<>>
    /\ stats_store = [id \in TransferIds |-> <<>>]
    /\ events = [id \in TransferIds |-> 0]
    /\ purges = {}
    /\ cb_fired = 0
    /\ regs = [id \in TransferIds |-> 0]
    /\ nops = 0
    /\ mon_ret = Ret("init", "", "none")
    /\ sampling = NoSampling
    /\ plan = NoPlan
    /\ dns_cache = [h \in DnsHosts |-> NoDns]
    /\ dns_calls = 0
    /\ dns_ret = NoDnsRet

\* the default configuration
Init == Constructed /\ history_size = HistorySize

\* a monitor configured to keep a short history
ConfiguredHistorySizes == {1, 2}
InitHistory == Constructed /\ history_size \in ConfiguredHistorySizes

\* the breaker driven through its three methods
NextBreaker ==
    /\ \/ \E url \in Urls : RecordFailure(url)
       \/ \E url \in Urls : RecordSuccess(url)
       \/ \E url \in Urls : CheckCircuit(url)
       \/ PeriodicCleanup
       \/ Tick(TickSteps)
    /\ UNCHANGED <<monVars, fnVars>>

SpecBreaker == Init /\ [][NextBreaker]_vars

\* the breaker driven by download_file and the tasks it starts
NextDownload ==
    /\ \/ \E url \in DownloadUrls : DownloadFileBegin(url)
       \/ \E c \in BagToSet(calls) : DownloadFilePlanFailed(c)
       \/ \E c \in BagToSet(calls) : DownloadFilePlanned(c)
       \/ \E k \in BagToSet(tasks) : TaskFinish(k)
       \/ PeriodicCleanup
       \/ Tick(DownloadTickSteps)
    /\ UNCHANGED <<monVars, fnVars>>

SpecDownload == Init /\ [][NextDownload]_vars

\* the same, with the event loop running every call and task that is ready
SpecDownloadFair == SpecDownload /\ WF_vars(NextDownload)

\* the monitor's registry, lock and background tasks, with plain progress reports
NextMonitor ==
    /\ \/ \E id \in TransferIds, size \in FileSizes : RegisterTransfer(id, size)
       \/ \E id \in TransferIds, bytes \in PlainBytes :
             UpdateTransferProgress(id, bytes, NoTotal, None)
       \/ \E id \in TransferIds, success \in BOOLEAN : CompleteTransfer(id, success)
       \/ RunWaiter
       \/ CallbacksDone
       \/ \E target \in TransferIds \cup {"global"} : RegisterCallback(target)
       \/ MonitorCleanup
       \/ \E p \in purges : HistoryPurge(p)
       \/ MonitorTick(MonitorTickSteps)
    /\ UNCHANGED fnVars

SpecMonitor == Init /\ [][NextMonitor]_vars

\* one transfer and every kind of progress report
NextEta ==
    /\ \/ \E size \in FileSizes : RegisterTransfer("t1", size)
       \/ \E bytes \in ByteInputs, totalIn \in TotalInputs, speedIn \in SpeedInputs :
             UpdateTransferProgress("t1", bytes, totalIn, speedIn)
       \/ MonitorTick(EtaTickSteps)
    /\ UNCHANGED fnVars

SpecEta == Init /\ [][NextEta]_vars

\* the same calls on a monitor that keeps a short history
SpecHistory == InitHistory /\ [][NextEta]_vars

\* the monitor shut down among its other calls, before the first pass of
\* the cleanup loop is due (the loop sleeps 300 s before each pass)
NextShutdown ==
    /\ \/ \E id \in TransferIds, size \in FileSizes : RegisterTransfer(id, size)
       \/ \E id \in TransferIds, bytes \in PlainBytes :
             UpdateTransferProgress(id, bytes, NoTotal, None)
       \/ \E id \in TransferIds, success \in BOOLEAN : CompleteTransfer(id, success)
       \/ Shutdown
       \/ RunWaiter
       \/ CallbacksDone
       \/ \E target \in TransferIds \cup {"global"} : RegisterCallback(target)
       \/ MonitorTick(ShutdownTickSteps)
    /\ UNCHANGED fnVars

SpecShutdown == Init /\ [][NextShutdown]_vars

\* the index selection applied to every history and point count
NextSampling ==
    \/ \E data \in Histories, p \in 1..MaxPoints : SmartSampling(data, p)
    \/ \E data \in Histories, p \in {NoPoints} \cup 1..MaxPoints :
          GetSpeedGraphData(data, p)

SpecSampling == Init /\ [][NextSampling]_vars

Networks == {Network(l, b, p) : l \in Latencies, b \in Bandwidths, p \in PacketLossPct}

\* the planner applied to every file size and network snapshot, with the
\* oracle switched on and off
NextPlanner ==
    \/ \E head \in HeadInputs, net \in Networks, priority \in Priorities :
          OptimizeDownload(head, net, priority)
    \/ \E size \in UploadSizes, net \in Networks, priority \in Priorities :
          OptimizeUpload(size, net, priority)
    \/ \E enabled \in BOOLEAN : ReloadConfig(enabled)

SpecPlanner == Init /\ [][NextPlanner]_vars

\* the connection count for every configured maximum, file size and latency
NextConnections ==
    \E max_conn \in ConfiguredMaxConnections, size \in ConnectionSizes,
       l \in Latencies, strategy \in Strategies :
          CalculateConnections(max_conn, size, Network(l, 0, 0), strategy)

SpecConnections == Init /\ [][NextConnections]_vars

\* adaptive plans adjusted again and again, by the loop and with every
\* measurement
NextAdapt ==
    \/ \E head \in AdaptHeads, net \in AdaptNetworks, priority \in Priorities :
          OptimizeDownload(head, net, priority)
    \/ \E enabled \in BOOLEAN : ReloadConfig(enabled)
    \/ \E speed \in PerfSpeeds, stability \in PerfStabilities :
          AdjustParameters(speed, stability)
    \/ AdaptationCheck

SpecAdapt == Init /\ [][NextAdapt]_vars

\* the DNS cache under lookups that answer or fail, the clock and the cleanup
NextDns ==
    /\ \/ \E h \in DnsHosts, failures \in 0..(DnsAttempts + 1), ip \in Ips :
             ResolveDns(h, failures, ip)
       \/ PeriodicCleanup
       \/ Tick(DnsTickSteps)
    /\ UNCHANGED <<monVars, fnVars>>

SpecDns == Init /\ [][NextDns]_vars

\* uploads requested while the breaker is driven through its states
NextUpload ==
    /\ \/ \E url \in Urls : RecordFailure(url)
       \/ \E url \in Urls : CheckCircuit(url)
       \/ \E url \in Urls, source_exists \in BOOLEAN : UploadFile(source_exists, url)
       \/ \E url \in Urls, strategy \in UploadStrategies : ExecuteUpload(strategy, url)
       \/ Tick(TickSteps)
    /\ UNCHANGED <<monVars, fnVars>>

SpecUpload == Init /\ [][NextUpload]_vars

-----------------------------------------------------------------------------
(* Properties of the circuit breaker *)

\* the step is a call of op on a URL of host h
Called(op, h) == last_call'[1] = op /\ Hostname(last_call'[2]) = h

\* C1: starting from no breaker entry or a closed one with failure_count 0,
\* the threshold-th consecutive _record_failure for a host (no success in
\* between) leaves the host's breaker open.
C1_ThresholdFailuresOpen ==
    [][\A h \in Hosts :
          (fail_run[h] = FailureThreshold - 1 /\ fail_run'[h] = FailureThreshold)
              => circuit_breakers'[h].state = "open"]_vars

C1_Witness ==
    /\ last_call[1] = "record_failure"
    /\ fail_run["x"] = FailureThreshold
    /\ circuit_breakers["x"].state = "open"
    /\ circuit_breakers["x"].failure_count = FailureThreshold

\* the breaker is open and less than reset_timeout has elapsed since it opened
OpenWithin(cb, t) == cb.state = "open" /\ t - cb.opened_at < cb.reset_timeout

\* the step starts a download_file call for a URL of host h
BeginsFor(h) == ncalls' = ncalls + 1 /\ Called("download_file", h)

\* C2: a download_file call made while the host's breaker is open and less
\* than reset_timeout has elapsed returns the circuit-open error at once: no
\* planning or network step, no task created, nothing registered.
C2_OpenFailsFast ==
    [][\A h \in Hosts :
          (BeginsFor(h) /\ OpenWithin(circuit_breakers[h], now))
              => /\ last_call'[3] = "circuit_open"
                 /\ calls' = calls
                 /\ tasks' = tasks
                 /\ active_transfers' = active_transfers
                 /\ net_steps' = net_steps]_vars

C2_Witness ==
    /\ last_call = <<"download_file", "http://x/f", "circuit_open">>
    /\ OpenWithin(circuit_breakers["x"], now)
    /\ circuit_breakers["x"].failure_count >= FailureThreshold

\* a half-open trial of host h has been admitted and has not reported yet
TrialPending(h) ==
    /\ circuit_breakers[h].state = "half_open"
    /\ \E c \in BagToSet(calls) : c.trial /\ Hostname(c.url) = h

\* C3: while the breaker is half_open and the admitted trial has not reported
\* a success or a failure, every further request to the host is rejected.
C3_SingleTrial ==
    [][\A h \in Hosts :
          (BeginsFor(h) /\ TrialPending(h)) => last_call'[3] = "circuit_open"]_vars

\* C4: a half_open breaker becomes closed exactly at the third consecutive
\* success recorded since it became half_open (no failure in between), and
\* its failure_count is then 0.
C4_ClosesOnThirdSuccess ==
    [][\A h \in Hosts :
          circuit_breakers[h].state = "half_open"
              => /\ (circuit_breakers'[h].state = "closed")
                      <=> (succ_run[h] = HalfOpenSuccesses - 1
                           /\ succ_run'[h] = HalfOpenSuccesses)
                 /\ circuit_breakers'[h].state = "closed"
                      => circuit_breakers'[h].failure_count = 0]_vars

C4_Witness ==
    /\ last_call[1] = "record_success"
    /\ succ_run["x"] = HalfOpenSuccesses
    /\ circuit_breakers["x"].state = "closed"
    /\ circuit_breakers["x"].failure_count = 0

\* C5: a failure recorded while the breaker is half_open moves it to open with
\* opened_at the time of the failure and the trial counter back at 0, whatever
\* the number of trial successes before it.
C5_HalfOpenFailureReopens ==
    [][\A h \in Hosts :
          (circuit_breakers[h].state = "half_open" /\ Called("record_failure", h))
              => /\ circuit_breakers'[h].state = "open"
                 /\ circuit_breakers'[h].opened_at = now
                 /\ circuit_breakers'[h].test_count = 0]_vars

C5_Witness ==
    /\ last_call[1] = "record_failure"
    /\ circuit_breakers["x"].state = "open"
    /\ circuit_breakers["x"].test_count = 0
    /\ circuit_breakers["x"].opened_at = now
    /\ now > StartTime + ResetTimeout

\* C6 as stated: a host never goes from open to closed, or to being treated
\* as closed (no entry), without passing through half_open.
C6_NeverOpenToClosed ==
    [][\A h \in Hosts :
          circuit_breakers[h].state = "open"
              => circuit_breakers'[h].state \in {"open", "half_open"}]_vars

\* C6 amended: an open breaker is left only to half_open, or by the periodic
\* cleanup deleting the entry once it has been open for more than an hour; an
\* entry never changes from open to closed.
C6_OpenLeftByTrialOrExpiry ==
    [][\A h \in Hosts :
          circuit_breakers[h].state = "open"
              => \/ circuit_breakers'[h].state \in {"open", "half_open"}
                 \/ /\ circuit_breakers'[h] = NoCB
                    /\ last_call'[1] = "periodic_cleanup"
                    /\ now - circuit_breakers[h].opened_at > BreakerMaxAge]_vars

C6_Witness ==
    /\ circuit_breakers["x"].state = "closed"
    /\ circuit_breakers["x"].test_count = 0
    /\ circuit_breakers["x"].opened_at > StartTime

-----------------------------------------------------------------------------
(* Properties of the speed monitor *)

\* the step runs the body of monitor call op for transfer id: at once when
\* the lock is free and nobody waits, or as the first waiter
BodyRan(op, id) ==
    \/ /\ nops' = nops + 1
       /\ LockFree
       /\ mon_ret'.op = op
       /\ mon_ret'.id = id
    \/ /\ nops' = nops
       /\ waiters # <<>>
       /\ waiters' = Tail(waiters)
       /\ Head(waiters).op = op
       /\ Head(waiters).id = id

\* C7: complete_transfer on a live id persists one TransferStats record,
\* emits one completion event and removes the id; complete_transfer on an id
\* that is not live (a second call, made after the first or queued behind it)
\* changes no monitor state; so an id never has more records or events than
\* registrations.
C7_CompleteIdempotent ==
    [][\A id \in TransferIds :
          /\ BodyRan("complete", id) =>
                IF contexts[id] # NoCtx
                THEN /\ Len(stats_store'[id]) = Len(stats_store[id]) + 1
                     /\ events'[id] = events[id] + 1
                     /\ contexts'[id] = NoCtx
                ELSE UNCHANGED <<contexts, transfer_history, callbacks,
                                 global_callbacks, transfer_lock, stats_store,
                                 events, purges, cb_fired, regs>>
          /\ Len(stats_store'[id]) <= regs'[id]
          /\ events'[id] = Len(stats_store'[id])]_vars

C7_Witness ==
    /\ mon_ret = Ret("complete", "t1", "none")
    /\ regs["t1"] = 1
    /\ Len(stats_store["t1"]) = 1
    /\ events["t1"] = 1
    /\ cb_fired = 1
    /\ waiters = <<>>

\* C8: update_transfer_progress on an id that is not live returns None, raises
\* nothing, fires no callback and leaves the registry, every context and
\* every history unchanged.
C8_UnknownIdIgnored ==
    [][\A id \in TransferIds :
          (BodyRan("update", id) /\ contexts[id] = NoCtx)
              => /\ mon_ret' = Ret("update", id, "none")
                 /\ UNCHANGED <<contexts, transfer_history, callbacks,
                                global_callbacks, transfer_lock, stats_store,
                                events, purges, cb_fired, regs>>]_vars

C8_Witness ==
    /\ mon_ret = Ret("update", "t1", "none")
    /\ contexts["t1"] = NoCtx
    /\ regs["t1"] = 1
    /\ Len(transfer_history["t1"]) = 1
    /\ Len(stats_store["t1"]) = 1

\* C9: the eta_seconds of every SpeedData returned for a registered transfer
\* is non-negative, and it is 0 exactly when bytes_transferred = total_bytes.
C9_EtaZeroExactlyAtEnd ==
    (mon_ret.op = "update" /\ mon_ret.kind = "speed_data")
        => /\ ~RLess(mon_ret.eta, Zero)
           /\ (mon_ret.eta = Zero) <=> (mon_ret.bytes = mon_ret.total)

\* the estimators the statement lists, for the speeds that are there to
\* divide by: the last recorded sample, the session average, the weighted
\* average of the last five samples
StatedEstimators(remaining, samples, avg) ==
    LET n == Len(samples)
        m1 == IF n > 0 /\ samples[n][1] # 0
              THEN <<IntOver(remaining, samples[n])>> ELSE <<>>
        m2 == IF avg[1] # 0 THEN <<IntOver(remaining, avg)>> ELSE <<>>
        m3 == IF n >= WeightedWindow /\ WeightedAvg(samples)[1] # 0
              THEN <<IntOver(remaining, WeightedAvg(samples))>> ELSE <<>>
    IN m1 \o m2 \o m3

\* C10: the ETA a progress update returns is the maximum of the estimators
\* available at that update (fewer than ten samples: no predicted speed).
C10_EtaIsMaxOfEstimators ==
    [][(BodyRan("update", "t1") /\ contexts["t1"] # NoCtx /\ mon_ret'.kind = "speed_data"
            /\ Len(contexts["t1"].speed_samples) < AiMinSamples)
          => LET ms == StatedEstimators(mon_ret'.total - mon_ret'.bytes,
                                        contexts["t1"].speed_samples,
                                        AvgSpeed(contexts["t1"], mon_ret'.bytes, now))
             IN ms # <<>> => mon_ret'.eta = RMaxOf(ms)]_vars

\* the estimators that compete with the supplied speed: the session average
\* and the weighted average of the last five samples
CompetingEstimators(remaining, samples, avg) ==
    LET n == Len(samples)
        m2 == IF avg[1] # 0 THEN <<IntOver(remaining, avg)>> ELSE <<>>
        m3 == IF n >= WeightedWindow /\ WeightedAvg(samples)[1] # 0
              THEN <<IntOver(remaining, WeightedAvg(samples))>> ELSE <<>>
    IN m2 \o m3

\* C11: an update that supplies a speed s > 0 with r bytes remaining returns
\* eta_seconds = r / s when no competing estimator is higher, whatever the
\* number of updates before it.
C11_EtaFromSuppliedSpeed ==
    [][(BodyRan("update", "t1") /\ contexts["t1"] # NoCtx
            /\ mon_ret'.kind = "speed_data"
            /\ RLess(Zero, mon_ret'.speed)
            /\ mon_ret'.total >= mon_ret'.bytes)
          => LET r == mon_ret'.total - mon_ret'.bytes
                 rs == IntOver(r, mon_ret'.speed)
                 ms == CompetingEstimators(r, contexts["t1"].speed_samples,
                           AvgSpeed(contexts["t1"], mon_ret'.bytes, now))
             IN (\A i \in 1..Len(ms) : ~RLess(rs, ms[i])) => mon_ret'.eta = rs]_vars

-----------------------------------------------------------------------------
(* Properties of the speed graph *)

\* the index list is sorted, holds the first and last index, and is no longer
\* than the number of points asked for
GoodSample(s) ==
    LET n == Len(s.data)
        idx == s.indices
    IN /\ \A i \in 1..(Len(idx) - 1) : idx[i] < idx[i + 1]
       /\ \E i \in 1..Len(idx) : idx[i] = 0
       /\ \E i \in 1..Len(idx) : idx[i] = n - 1
       /\ Len(idx) <= s.points

\* C12 as stated: for every history of length n >= 1 and every positive point
\* count p the index list is sorted, contains 0 and n-1 and has length <= p.
C12_SampleKeepsEndsWithinPoints ==
    (sampling.op # "none" /\ Len(sampling.data) >= 1 /\ sampling.points >= 1)
        => GoodSample(sampling)

\* C12 amended: the same for a non-empty history and p >= 2, or p >= n; with
\* p = 1 and n >= 2 the list holds both end points and is longer than p.
C12_SampleKeepsEndsFromTwoPoints ==
    /\ (sampling.op # "none" /\ Len(sampling.data) >= 1
            /\ (sampling.points >= 2 \/ sampling.points >= Len(sampling.data)))
          => GoodSample(sampling)
    /\ (sampling.op # "none" /\ sampling.points = 1 /\ Len(sampling.data) >= 2)
          => Len(sampling.indices) > sampling.points

C12_Witness ==
    /\ sampling.op = "get_speed_graph_data"
    /\ sampling.data = <<0, 0, 1, 0, 2>>
    /\ sampling.points = 3
    /\ sampling.indices = <<0, 2, 4>>

-----------------------------------------------------------------------------
(* Properties of the planner *)

\* C13: for every file size (0 when the size is unknown or the analysis
\* failed), every network snapshot and every strategy, the plan has
\* connections >= 1 and chunk_size >= 1.
C13_PlanAtLeastOne ==
    plan.kind = "plan" => (plan.connections >= 1 /\ plan.chunk_size >= 1)

LargeFileScenario ==
    /\ plan.op = "_optimize_download"
    /\ plan.kind = "plan"
    /\ plan.size = 500 * MB
    /\ plan.net.latency = 20
    /\ plan.net.bandwidth = 50 * MB

\* C15 as stated: for 500MB, 20ms and 50MB/s the rule-based plan has strategy
\* adaptive and connections in [4,16].
C15_LargeFileAdaptive ==
    LargeFileScenario => (plan.strategy = "adaptive" /\ plan.connections \in 4..16)

\* C15 amended: for 500MB, 20ms and 50MB/s the rule-based plan has strategy
\* multi_connection (the file is larger than 100MB) and connections = 16,
\* the configured maximum.
C15_LargeFileMultiConnection ==
    LargeFileScenario
        => (plan.strategy = "multi_connection" /\ plan.connections = MaxConnections)

C15_Witness ==
    /\ LargeFileScenario
    /\ plan.net.packet_loss = 0
    /\ plan.strategy = "multi_connection"
    /\ plan.connections = 16
    /\ ~plan.ai

\* C16: with the oracle disabled, or raising during the prediction, planning
\* a download returns a TransferOptimization whose strategy is the one of the
\* rules and whose confidence is <= 0.8; the planner does not fail.
C16_RulesPlanWithoutOracle ==
    plan.op = "_optimize_download"
        => /\ plan.kind = "plan"
           /\ plan.strategy = RuleStrategy(plan.size, plan.net)
           /\ plan.confidence <= 80

-----------------------------------------------------------------------------
(* Properties of the DNS cache *)

\* the step is a _resolve_dns call for hostname h
Resolved(h) == dns_calls' = dns_calls + 1 /\ dns_ret'.host = h

\* the cache holds an entry for h that has not expired
Unexpired(h) == dns_cache[h] # NoDns /\ now < dns_cache[h].expiry

\* C17 as stated: no resolver is queried while an unexpired entry exists, and
\* a call without one performs exactly one resolution, whose result is cached
\* until now + TTL.
C17_OneResolutionPerExpiry ==
    [][\A h \in DnsHosts :
          Resolved(h) =>
             IF Unexpired(h)
             THEN /\ dns_ret'.queries = 0
                  /\ dns_ret'.result = dns_cache[h].ip
                  /\ dns_cache' = dns_cache
             ELSE /\ dns_ret'.queries = 1
                  /\ dns_cache'[h] = [ip |-> dns_ret'.result,
                                      expiry |-> now + DnsCacheTtl]]_vars

\* C17 amended: no resolver is queried while an unexpired entry exists; a call
\* without one makes up to four lookups, stops at the first answer and caches
\* it until now + TTL; when all four fail it returns the hostname and caches
\* nothing.
C17_ResolveUntilAnswer ==
    [][\A h \in DnsHosts :
          Resolved(h) =>
             IF Unexpired(h)
             THEN /\ dns_ret'.queries = 0
                  /\ dns_ret'.result = dns_cache[h].ip
                  /\ dns_cache' = dns_cache
             ELSE /\ dns_ret'.queries \in 1..(DnsAttempts + 1)
                  /\ \/ /\ dns_ret'.result \in Ips
                        /\ dns_cache' = [dns_cache EXCEPT ![h] =
                              [ip |-> dns_ret'.result, expiry |-> now + DnsCacheTtl]]
                     \/ /\ dns_ret'.result = h
                        /\ dns_ret'.queries = DnsAttempts + 1
                        /\ dns_cache' = dns_cache]_vars

C17_Witness ==
    /\ dns_ret.host = "x"
    /\ dns_ret.queries = 1
    /\ dns_ret.at = now
    /\ now >= StartTime + DnsCacheTtl
    /\ dns_calls >= 3
    /\ dns_cache["x"] = [ip |-> dns_ret.result, expiry |-> now + DnsCacheTtl]

-----------------------------------------------------------------------------
(* Properties of the monitor's callbacks *)

\* C18: callbacks run with the registry lock released: while the callbacks of
\* one transfer are running, a monitor call for another transfer runs without
\* waiting for them.
C18_CallbacksDoNotDelayOthers ==
    [][(nops' = nops + 1 /\ transfer_lock = "callbacks" /\ waiters' # waiters
            /\ waiters'[Len(waiters')].op \in {"update", "complete"})
          => waiters'[Len(waiters')].id = mon_ret.id]_vars

-----------------------------------------------------------------------------
(* Properties of download execution *)

\* C19: an error during a transfer is retried locally before a failure is
\* recorded against the host's breaker: an _execute_download step changes
\* the breaker only after more than one attempt.
C19_RetriedBeforeRecorded ==
    [][\A h \in Hosts :
          (Called("execute_download", h) /\ circuit_breakers'[h] # circuit_breakers[h])
              => ExecuteAttempts > 1]_vars

-----------------------------------------------------------------------------
(* Properties of upload_file *)

\* C20: an upload_file request to a host whose breaker is open (less than
\* reset_timeout since it opened) returns the circuit-open error without a
\* network attempt, as download_file does.
C20_UploadOpenFailsFast ==
    [][\A h \in Hosts :
          (Called("upload_file", h) /\ OpenWithin(circuit_breakers[h], now))
              => /\ last_call'[3] = "circuit_open"
                 /\ net_steps' = net_steps]_vars

-----------------------------------------------------------------------------
(* Properties of the live contexts and of the plans *)

\* a length the runs can pass: a run makes up to MaxOps - 1 progress reports
\* on one registered transfer
SampleBound == MaxOps - 2

\* C21: the length of a live TransferContext's speed_samples never exceeds a
\* fixed bound, for any number of progress updates.
C21_SamplesBounded ==
    \A id \in TransferIds :
        Live(id) => Len(contexts[id].speed_samples) <= SampleBound

\* C22: every plan satisfies chunk_size * connections <= the configured
\* buffer ceiling (config.download['buffer_size_mb'] megabytes).
C22_PlanWithinBufferCeiling ==
    plan.kind = "plan" => plan.chunk_size * plan.connections <= BufferSizeMb * MB

\* C23: each pass of the monitor's stale-transfer cleanup ends with the
\* registry lock released, having finalized every live transfer idle for more
\* than an hour as failed; the pass never keeps the lock across a suspension
\* point.  The lock has the value "cleanup" exactly while a pass holds it
\* suspended in complete_transfer.
C23_CleanupReleasesLock == transfer_lock # "cleanup"

\* C24: shutdown() called with any number of live transfers terminates, and
\* afterwards the live registry is empty and each transfer that was live has
\* exactly one failed stats record ("System shutdown").  A shutdown that has
\* taken the lock has returned, with the lock free again and nothing live.
C24_ShutdownTerminates ==
    mon_ret.op = "shutdown" =>
        /\ mon_ret.kind = "done"
        /\ transfer_lock # "shutdown"
        /\ \A id \in TransferIds : contexts[id] = NoCtx

\* C25: under any interleaving of update_transfer_progress and
\* complete_transfer calls for one transfer id, the bodies of the calls run one
\* at a time, each with the lock free of any other call; once complete_transfer
\* has removed the context, no later update for that id produces a SpeedData,
\* appends to its history or fires a callback; and an update that returns a
\* SpeedData wrote the sample, the checkpoint and the history entry onto the
\* context and the history exactly as it found them.
C25_UpdatesSerialised ==
    [][\A id \in TransferIds :
          /\ (BodyRan("update", id) \/ BodyRan("complete", id))
                 => transfer_lock = "free"
          /\ (BodyRan("update", id) /\ contexts[id] = NoCtx)
                 => /\ mon_ret'.kind = "none"
                    /\ transfer_history' = transfer_history
                    /\ cb_fired' = cb_fired
                    /\ contexts'[id] = NoCtx
          /\ (BodyRan("update", id) /\ contexts[id] # NoCtx
                                    /\ mon_ret'.kind = "speed_data")
                 => /\ Len(contexts'[id].speed_samples)
                          = Len(contexts[id].speed_samples) + 1
                    /\ SubSeq(contexts'[id].speed_samples, 1,
                              Len(contexts[id].speed_samples))
                          = contexts[id].speed_samples
                    /\ contexts'[id].last_checkpoint = now
                    /\ contexts'[id].last_bytes = mon_ret'.bytes
                    /\ Len(transfer_history'[id]) = Len(transfer_history[id]) + 1
                    /\ \A other \in TransferIds \ {id} :
                          /\ contexts'[other] = contexts[other]
                          /\ transfer_history'[other] = transfer_history[other]]_vars

\* an update and a completion were issued while the callbacks of an earlier
\* update held the lock; the completion ran first and the update found nothing
C25_Witness ==
    /\ mon_ret = Ret("update", "t1", "none")
    /\ contexts["t1"] = NoCtx
    /\ callbacks = {"t1"}
    /\ cb_fired = 1
    /\ nops = MaxOps
    /\ waiters = <<>>
    /\ Len(transfer_history["t1"]) = 1
    /\ Len(stats_store["t1"]) = 1

\* C26: for any sequence of progress reports with
\* 0 <= bytes_transferred <= total_bytes on a registered transfer (a report of
\* 0 bytes and a report with speed 0 among them), update_transfer_progress
\* returns a SpeedData and never raises.
C26_InRangeReportReturnsSpeedData ==
    (/\ mon_ret.op = "update"
     /\ regs[mon_ret.id] > 0
     /\ 0 <= mon_ret.bytes
     /\ mon_ret.bytes <= mon_ret.total)
        => mon_ret.kind = "speed_data"

\* C27: with the oracle not overriding, the strategy chosen for every
\* combination of file size, latency and bandwidth is: single if size < 2MB;
\* otherwise single if latency > 200ms or bandwidth < 1MB/s; otherwise
\* multi_connection if size > 100MB; otherwise adaptive.
C27_StrategyTable ==
    (plan.op = "_optimize_download" /\ plan.kind = "plan")
        => plan.strategy =
              IF plan.size < 2 * MB THEN "single"
              ELSE IF plan.net.latency > 200 \/ plan.net.bandwidth < MB THEN "single"
              ELSE IF plan.size > 100 * MB THEN "multi_connection"
              ELSE "adaptive"

\* a plan on all three thresholds at once: 2MB is not under 2MB, 200ms is not
\* over 200ms, 1MB/s is not under 1MB/s
C27_Witness ==
    /\ plan.op = "_optimize_download"
    /\ plan.kind = "plan"
    /\ plan.size = 2 * MB
    /\ plan.net.latency = 200
    /\ plan.net.bandwidth = MB
    /\ plan.strategy = "adaptive"

\* C28: download_file registers a transfer task in active_transfers if and
\* only if it returns success=True: a call that reports failure has left no
\* transfer task running, and a call that started a task records no failure
\* against the host's breaker.
C28_TaskIffSuccess ==
    [][(last_call'[1] = "download_file_return" /\ net_steps' # net_steps)
          => /\ (tasks' # tasks \/ active_transfers' # active_transfers)
                    <=> (last_call'[3] = "success")
             /\ (tasks' # tasks)
                    => \A h \in Hosts : circuit_breakers'[h] = circuit_breakers[h]]_vars

-----------------------------------------------------------------------------
(* Properties of the multipart upload *)

-----------------------------------------------------------------------------
(* Properties of the adaptive re-tuning *)

\* the step adjusted the plan with the measurement now in plan.observed
AdjustStep ==
    /\ plan.kind = "plan"
    /\ plan'.op \in {"_adjust_parameters", "_monitor_and_adjust"}
    /\ plan' # plan

C32_ConnectionsWithinMax ==
    plan.kind \in {"plan", "connections"} => plan.connections <= plan.max_connections

-----------------------------------------------------------------------------
(* Properties of the breaker under transfers in flight *)

\* C33: once a breaker opened at time t, a request made at any time
\* >= t + reset_timeout is admitted as a half-open trial, even if failures of
\* transfers already in flight were recorded against that host while it was
\* open: a step that leaves the breaker open leaves the time it opened, and a
\* download_file call made reset_timeout or more after that time is admitted
\* with the breaker half_open.
C33_TrialAfterResetTimeout ==
    [][\A h \in Hosts :
          /\ (circuit_breakers[h].state = "open" /\ circuit_breakers'[h].state = "open")
                 => circuit_breakers'[h].opened_at = circuit_breakers[h].opened_at
          /\ (/\ BeginsFor(h)
              /\ circuit_breakers[h].state = "open"
              /\ now - circuit_breakers[h].opened_at >= circuit_breakers[h].reset_timeout)
                 => /\ circuit_breakers'[h].state = "half_open"
                    /\ last_call'[3] = "admitted"]_vars

-----------------------------------------------------------------------------
(* Properties of the chunk size of a plan *)

\* C36: for every combination of latency and packet loss, the chunk size of a
\* plan that is not single is the configured base halved when the latency is
\* above 100 ms, quartered when the packet loss is above 10%, and doubled
\* (at most 50 MB) only when neither holds.
C36_ChunkByLatencyAndLoss ==
    (plan.kind = "plan" /\ plan.strategy # "single")
        => LET base_chunk == ChunkSizeMb * MB
               slow == plan.net.latency > 100
               lossy == plan.net.packet_loss > 10
           IN /\ slow => plan.chunk_size = base_chunk \div 2
              /\ lossy => plan.chunk_size = base_chunk \div 4
              /\ (~slow /\ ~lossy) => plan.chunk_size = Min(base_chunk * 2, 50 * MB)
              /\ plan.chunk_size = Min(base_chunk * 2, 50 * MB) => (~slow /\ ~lossy)

-----------------------------------------------------------------------------
(* Properties of the history of a transfer *)

\* C37: after every progress update that appended an entry, the history of
\* the transfer is no longer than the configured history_size, and it holds
\* the most recent entries, the new one last, in the order they arrived.
C37_HistoryKeepsMostRecent ==
    [][\A id \in TransferIds :
          (BodyRan("update", id) /\ mon_ret'.kind \in {"speed_data", "ValueError"})
              => LET new == transfer_history'[id]
                     arrived == Append(transfer_history[id], new[Len(new)])
                 IN /\ Len(new) >= 1
                    /\ Len(new) <= history_size
                    /\ Len(new) = Min(Len(arrived), history_size)
                    /\ new = SubSeq(arrived, Len(arrived) - Len(new) + 1, Len(arrived))
                    /\ new[Len(new)].bytes_transferred = mon_ret'.bytes]_vars

\* three updates reported 0, 2 and 4 bytes to a monitor that keeps two
\* entries: the entry of the first update is gone
C37_Witness ==
    /\ history_size = 2
    /\ nops = MaxOps
    /\ mon_ret.op = "update"
    /\ Len(transfer_history["t1"]) = 2
    /\ transfer_history["t1"][1].bytes_transferred = 2
    /\ transfer_history["t1"][2].bytes_transferred = 4

-----------------------------------------------------------------------------
(* Properties of a name resolution that fails *)

\* C38: when every dns.resolver lookup of the fallback chain and the platform
\* resolver fail, _resolve_dns returns the original hostname, raises nothing,
\* and stores no new cache entry for that hostname.
C38_TotalFailureReturnsHostname ==
    [][\A h \in DnsHosts :
          (Resolved(h) /\ ~Unexpired(h) /\ dns_ret'.failed = DnsAttempts + 1)
              => /\ dns_ret'.result = h
                 /\ dns_ret'.queries = DnsAttempts + 1
                 /\ dns_cache' = dns_cache]_vars

\* an answer for "x" was cached and has expired; the next resolution of "x"
\* found every lookup failing, returned "x" and left the stale entry as it was
C38_Witness ==
    /\ dns_ret.host = "x"
    /\ dns_ret.failed = DnsAttempts + 1
    /\ dns_ret.result = "x"
    /\ dns_ret.at = now
    /\ dns_cache["x"] # NoDns
    /\ dns_cache["x"].expiry <= now

-----------------------------------------------------------------------------
(* Properties of the transfer ids of download_file *)

\* C39: any two download_file calls, including two for the same URL issued
\* within the same second, obtain distinct transfer ids, so no
\* active_transfers entry is overwritten while its task is still running:
\* every running task is the one registered under its id, and no id has two
\* running tasks.
C39_DistinctTransferIds ==
    \A k \in BagToSet(tasks) :
        /\ k.registered
        /\ CopiesIn(k, tasks) = 1
        /\ \A j \in BagToSet(tasks) : j.tid = k.tid => j = k

-----------------------------------------------------------------------------
(* Properties of the delayed history purge *)

\* the step is a _schedule_history_cleanup task waking up.  The entries a
\* live transfer appended since it was registered are the last
\* Len(speed_samples) entries of the history kept under its id.
PurgeFires == \E p \in purges : purges' = purges \ {p}

\* C40: the delayed history purge scheduled by complete_transfer removes only
\* the history of the transfer that completed: when the same id has been
\* registered again before the purge fires, the history of the new live
\* transfer is not deleted.
C40_PurgeSparesLiveTransfer ==
    [][\A id \in TransferIds :
          (PurgeFires /\ Live(id))
              => LET own == Len(contexts[id].speed_samples)
                     old == transfer_history[id]
                     new == transfer_history'[id]
                 IN /\ Len(new) >= own
                    /\ SubSeq(new, Len(new) - own + 1, Len(new))
                          = SubSeq(old, Len(old) - own + 1, Len(old))]_vars


====
